---- MODULE Spec2Model ----
(***************************************************************************)
(* Model of workflow.py: the travel-planning graph.  A run starts at START, *)
(* passes the travel evaluator gate, then executes the nodes               *)
(* query_analyzer, hotel_agent, weather_agent, attractions_agent,          *)
(* calculator_agent, itinerary_agent, summary_agent; summary_agent may     *)
(* route back to an earlier node through a marker in its text.             *)
(***************************************************************************)
EXTENDS Integers, Sequences, FiniteSets, TLC

\* state      the WorkflowState record of the run
\* scheduled  the nodes that run in the next step
\* status     "start" before the gate, then "running", "terminal" or "error"
\* err        the node and the exception that ended the run
\* response   the label the travel evaluator returned (None before it)
\* trace      the nodes that ran, in order, each with how its collaborator fared
\* output     what the collaborator called last returned or raised
VARIABLES state, scheduled, status, err, response, trace, output

vars == <<state, scheduled, status, err, response, trace, output>>

-----------------------------------------------------------------------------
(* Bounds of the model *)

\* longest summary text, in tokens
MaxLen == 2
\* most node executions in one run
MaxSteps == 13
\* most entries the hotel agent's JSON list holds
MaxHotels == 1

-----------------------------------------------------------------------------
(* Values *)

\* Python's None and a present value
None == <<>>
Some(v) == <<v>>

START == "__start__"
END == "__end__"

Nodes ==
  {"query_analyzer", "hotel_agent", "weather_agent", "attractions_agent",
   "calculator_agent", "itinerary_agent", "summary_agent"}

\* the trip parameters of WorkflowState, as constructed in __main__
ParamFields ==
  {"destination", "budget", "native_currency", "days", "group_size",
   "activity_preferences", "accommodation_type", "dietary_restrictions",
   "transportation_preferences"}

\* the triggering user request
Request == "I want to go to Paris for 3 days, my budget is 1000 EUR"

RECURSIVE SeqsUpTo(_, _)
SeqsUpTo(S, n) ==
  IF n = 0 THEN {<<>>}
  ELSE LET shorter == SeqsUpTo(S, n - 1)
       IN shorter \cup {Append(s, x) : s \in {t \in shorter : Len(t) = n - 1}, x \in S}

\* the record __main__ builds: every trip parameter None, the result fields
\* at their defaults, messages holding what the caller passes
WorkflowState(msgs) ==
  [messages |-> msgs,
   destination |-> None, budget |-> None, native_currency |-> None,
   days |-> None, group_size |-> None, activity_preferences |-> None,
   accommodation_type |-> None, dietary_restrictions |-> None,
   transportation_preferences |-> None,
   hotels |-> None, weather |-> None, attractions |-> None,
   calculator_result |-> None, itinerary |-> None, summary |-> None]

\* __main__ passes the user request as the only message
InitialStates == {WorkflowState(<<Request>>)}

\* what a node returns: a Command, or an exception leaving the node
Command(goto, update) ==
  [raised |-> FALSE, exc |-> "", goto |-> goto, update |-> update]

Raise(exc, st) ==
  [raised |-> TRUE, exc |-> exc, goto |-> "", update |-> st]

-----------------------------------------------------------------------------
(* Outcomes of the external collaborators *)

\* the ways a call to a collaborator can fail by raising
FailureKinds == {"Timeout", "Transport", "MalformedOutput", "Refused"}

Raised(k) == [returned |-> FALSE, kind |-> k, value |-> None]

Returned(v) == [returned |-> TRUE, kind |-> "ok", value |-> Some(v)]

Failures == {Raised(k) : k \in FailureKinds}

\* final message content of travel_evaluator
EvaluatorResponses == {"TRAVEL", "NOT_TRAVEL", "", "travel", "MAYBE"}

EvaluatorOutcomes == {Returned(r) : r \in EvaluatorResponses} \cup Failures

\* QueryAnalysisResult.model_dump(): a field the request does not give is None
QueryAnalysisResults ==
  {[destination |-> Some("Paris"), budget |-> Some(1000),
    native_currency |-> Some("USD"), days |-> Some(3), group_size |-> None,
    activity_preferences |-> Some("art"), accommodation_type |-> None,
    dietary_restrictions |-> None, transportation_preferences |-> None]}

AnalyzerOutcomes == {Returned(r) : r \in QueryAnalysisResults} \cup Failures

\* the fields the hotel agent's prompt asks for in each entry
HotelFields == {"name", "price_per_night", "review_count", "rating", "url"}

\* entries of the JSON list: a well-formed hotel, a dict lacking a field,
\* a value that is no dict
HotelEntries ==
  {[ismapping |-> TRUE, keys |-> HotelFields],
   [ismapping |-> TRUE, keys |-> HotelFields \ {"price_per_night"}],
   [ismapping |-> FALSE, keys |-> {}]}

\* final message content of hotel_agent: text that is no JSON, a JSON
\* number, or a JSON list
HotelContents ==
  {[kind |-> "text", items |-> <<>>], [kind |-> "number", items |-> <<>>]}
    \cup {[kind |-> "list", items |-> l] : l \in SeqsUpTo(HotelEntries, MaxHotels)}

HotelOutcomes == {Returned(c) : c \in HotelContents} \cup Failures

WeatherOutcomes == {Returned("Sunny, 20C")} \cup Failures

AttractionsOutcomes == {Returned("Louvre: 17 EUR")} \cup Failures

CalculatorOutcomes == {Returned("hotel 360, attractions 17")} \cup Failures

ItineraryOutcomes == {Returned("Day 1: Louvre")} \cup Failures

\* the pieces a summary text is made of
Tokens ==
  {"regenerate:", "attractions_agent", "calculator_agent", "itinerary_agent",
   "hotel_agent", " ", "Final", "Final regenerate:"}

Contents == SeqsUpTo(Tokens, MaxLen)

\* generate_summary returns a dict with the text under 'summary', a dict
\* without that key, or another object
SummaryValues ==
  {[isdict |-> TRUE, summary |-> Some(c)] : c \in Contents}
    \cup {[isdict |-> TRUE, summary |-> None]}
    \cup {[isdict |-> FALSE, summary |-> Some(c)] : c \in
             {<<>>, <<"Final">>, <<"regenerate:", "attractions_agent">>,
              <<"regenerate:", "hotel_agent">>}}

SummaryOutcomes == {Returned(v) : v \in SummaryValues} \cup Failures

-----------------------------------------------------------------------------
(* The gate *)

\* TravelEvaluationResult: result is Literal["TRAVEL", "NOT_TRAVEL"]
TravelEvaluationResult(r) == r \in {"TRAVEL", "NOT_TRAVEL"}

\* the gate without the validation: whatever is not TRAVEL counts as NOT_TRAVEL
router_travel_evaluator_Guess(st, out) ==
  IF ~out.returned THEN [raised |-> TRUE, exc |-> out.kind, branch |-> ""]
  ELSE [raised |-> FALSE, exc |-> "",
        branch |-> IF out.value[1] = "TRAVEL" THEN "TRAVEL" ELSE "NOT_TRAVEL"]

\* router_travel_evaluator: the label, or ValueError for anything else;
\* an exception of travel_evaluator.invoke leaves the function as it is
router_travel_evaluator(st, out) ==
  IF ~out.returned THEN [raised |-> TRUE, exc |-> out.kind, branch |-> ""]
  ELSE LET r == out.value[1]
       IN IF TravelEvaluationResult(r)
          THEN [raised |-> FALSE, exc |-> "", branch |-> r]
          ELSE [raised |-> TRUE, exc |-> "ValueError", branch |-> ""]

\* a branch map that sends both labels to query_analyzer
StartBranchMap_AllToAnalyzer == [r \in {"TRAVEL", "NOT_TRAVEL"} |-> "query_analyzer"]

\* branch map of the conditional edge from START
StartBranchMap == [r \in {"TRAVEL", "NOT_TRAVEL"} |->
                     IF r = "TRAVEL" THEN "query_analyzer" ELSE END]

-----------------------------------------------------------------------------
(* The nodes *)

\* the analyzer node with the failure of analyze swallowed
node_query_analyzer_Swallow(st, out) ==
  IF ~out.returned THEN Command("hotel_agent", st)
  ELSE LET result == out.value[1]
       IN Command("hotel_agent",
                  [f \in DOMAIN st |->
                     IF f \in DOMAIN result THEN result[f] ELSE st[f]])

\* node_query_analyzer: every field of the analysis result is set on the
\* state; query_analyzer.analyze is called outside any try
node_query_analyzer(st, out) ==
  IF ~out.returned THEN Raise(out.kind, st)
  ELSE LET result == out.value[1]
       IN Command("hotel_agent",
                  [f \in DOMAIN st |->
                     IF f \in DOMAIN result THEN result[f] ELSE st[f]])

\* json.loads(raw_content), then HotelInfo(**h) for each h: the list of
\* hotels, or the first exception
RECURSIVE FirstBadEntry(_)
FirstBadEntry(items) ==
  IF items = <<>> THEN "none"
  ELSE IF ~Head(items).ismapping THEN "TypeError"
  ELSE IF ~(HotelFields \subseteq Head(items).keys) THEN "ValidationError"
  ELSE FirstBadEntry(Tail(items))

ParseHotels(raw) ==
  IF raw.kind = "text" THEN [exc |-> "JSONDecodeError", hotels |-> <<>>]
  ELSE IF raw.kind # "list" THEN [exc |-> "TypeError", hotels |-> <<>>]
  ELSE [exc |-> FirstBadEntry(raw.items), hotels |-> raw.items]

\* an except clause that catches the JSON error only
HotelCaught_JsonOnly == {"JSONDecodeError"}

\* the except clause of node_hotel_agent
HotelCaught == {"JSONDecodeError", "ValidationError", "TypeError"}

\* the hotel node without the assignment in the except clause
node_hotel_agent_NoDefault(st, out) ==
  IF ~out.returned THEN Raise(out.kind, st)
  ELSE LET p == ParseHotels(out.value[1])
       IN IF p.exc = "none"
          THEN Command("weather_agent", [st EXCEPT !.hotels = Some(p.hotels)])
          ELSE IF p.exc \in HotelCaught
          THEN Command("weather_agent", st)
          ELSE Raise(p.exc, st)

\* node_hotel_agent: the parsed hotels, [] when parsing raises
node_hotel_agent(st, out) ==
  IF ~out.returned THEN Raise(out.kind, st)
  ELSE LET p == ParseHotels(out.value[1])
       IN IF p.exc = "none"
          THEN Command("weather_agent", [st EXCEPT !.hotels = Some(p.hotels)])
          ELSE IF p.exc \in HotelCaught
          THEN Command("weather_agent", [st EXCEPT !.hotels = Some(<<>>)])
          ELSE Raise(p.exc, st)

\* the weather node returning an update that holds no messages
node_weather_agent_DropMessages(st, out) ==
  IF ~out.returned THEN Raise(out.kind, st)
  ELSE Command("attractions_agent",
               [st EXCEPT !.weather = out.value, !.messages = <<>>])

node_weather_agent(st, out) ==
  IF ~out.returned THEN Raise(out.kind, st)
  ELSE Command("attractions_agent", [st EXCEPT !.weather = out.value])

\* the attractions node assigning its result to state.weather as well
node_attractions_agent_WritesWeather(st, out) ==
  IF ~out.returned THEN Raise(out.kind, st)
  ELSE Command("calculator_agent",
               [st EXCEPT !.attractions = out.value, !.weather = out.value])

\* the attractions node going straight to the summary
node_attractions_agent_SkipToSummary(st, out) ==
  IF ~out.returned THEN Raise(out.kind, st)
  ELSE Command("summary_agent", [st EXCEPT !.attractions = out.value])

node_attractions_agent(st, out) ==
  IF ~out.returned THEN Raise(out.kind, st)
  ELSE Command("calculator_agent", [st EXCEPT !.attractions = out.value])

\* the calculator node storing the converted budget in state.budget
node_calculator_agent_WritesBudget(st, out) ==
  IF ~out.returned THEN Raise(out.kind, st)
  ELSE Command("itinerary_agent",
               [st EXCEPT !.calculator_result = out.value, !.budget = Some(1080)])

\* the calculator node going to the summary instead of the itinerary
node_calculator_agent_SkipItinerary(st, out) ==
  IF ~out.returned THEN Raise(out.kind, st)
  ELSE Command("summary_agent", [st EXCEPT !.calculator_result = out.value])

node_calculator_agent(st, out) ==
  IF ~out.returned THEN Raise(out.kind, st)
  ELSE Command("itinerary_agent", [st EXCEPT !.calculator_result = out.value])

\* the itinerary node without the assignment to state.itinerary
node_itinerary_agent_NoWrite(st, out) ==
  IF ~out.returned THEN Raise(out.kind, st)
  ELSE Command("summary_agent", st)

node_itinerary_agent(st, out) ==
  IF ~out.returned THEN Raise(out.kind, st)
  ELSE Command("summary_agent", [st EXCEPT !.itinerary = out.value])

\* the tokens that end with the literal "regenerate:"
IsMarker(t) == t \in {"regenerate:", "Final regenerate:"}

\* the tokens made of word characters only (\w)
IsWord(t) == t \notin {"regenerate:", "Final regenerate:", " "}

\* the tokens that end in "_agent"
EndsInAgent(t) ==
  t \in {"attractions_agent", "calculator_agent", "itinerary_agent", "hotel_agent"}

\* str.lower() of a token
Lower(t) ==
  IF t = "Final" THEN "final"
  ELSE IF t = "Final regenerate:" THEN "final regenerate:"
  ELSE t

RECURSIVE Join(_)
Join(s) == IF s = <<>> THEN "" ELSE Head(s) \o Join(Tail(s))

\* the last index of the run of word tokens that starts at index i
\* (i - 1 when there is none)
RECURSIVE WordRun(_, _)
WordRun(c, i) ==
  IF i > Len(c) \/ ~IsWord(c[i]) THEN i - 1 ELSE WordRun(c, i + 1)

\* (\w+_agent) right after the "regenerate:" at index i: \w+ is greedy, so
\* the group ends with the last "_agent" of the run of word characters
GroupEnds(c, i) == {k \in (i + 1)..WordRun(c, i + 1) : EndsInAgent(c[k])}

Max(S) == CHOOSE x \in S : \A y \in S : y <= x
Min(S) == CHOOSE x \in S : \A y \in S : x <= y

\* 'final' in content.lower()
HasFinal(c) == \E i \in 1..Len(c) : Lower(c[i]) \in {"final", "final regenerate:"}

\* a search that looks for the marker only in a text without 'final'
re_search_UnlessFinal(c) ==
  LET starts == {i \in 1..Len(c) : IsMarker(c[i]) /\ GroupEnds(c, i) # {}}
  IN IF starts = {} \/ HasFinal(c) THEN None
     ELSE LET i == Min(starts)
          IN Some(Join(SubSeq(c, i + 1, Max(GroupEnds(c, i)))))

\* re.search(r'regenerate:(\w+_agent)', content): group 1 of the leftmost
\* match, None without a match
re_search(c) ==
  LET starts == {i \in 1..Len(c) : IsMarker(c[i]) /\ GroupEnds(c, i) # {}}
  IN IF starts = {} THEN None
     ELSE LET i == Min(starts)
          IN Some(Join(SubSeq(c, i + 1, Max(GroupEnds(c, i)))))

\* summary.get('summary') if isinstance(summary, dict) else str(summary);
\* the argument is the value of the summary field
SummaryContent(field) ==
  IF field = None THEN Some(<<"None">>)
  ELSE field[1].summary

\* node_summary_agent: the summary is stored, then the text decides the goto
node_summary_agent(st, out) ==
  IF ~out.returned THEN Raise(out.kind, st)
  ELSE LET st2 == [st EXCEPT !.summary = out.value]
           content == SummaryContent(st2.summary)
       IN IF content = None THEN Raise("TypeError", st)
          ELSE LET match == re_search(content[1])
               IN IF match # None THEN Command(match[1], st2)
                  ELSE IF HasFinal(content[1]) THEN Command(END, st2)
                  ELSE Command(END, st2)

\* the router without its last line: "None" is returned without a signal
summary_supervisor_router_NoDefault(st) ==
  LET content == SummaryContent(st.summary)
  IN IF content = None THEN [raised |-> TRUE, exc |-> "TypeError", branch |-> ""]
     ELSE LET match == re_search(content[1])
          IN IF match # None THEN [raised |-> FALSE, exc |-> "", branch |-> match[1]]
             ELSE IF HasFinal(content[1]) THEN [raised |-> FALSE, exc |-> "", branch |-> END]
             ELSE [raised |-> FALSE, exc |-> "", branch |-> "None"]

\* summary_supervisor_router: the branch the text of state.summary names
summary_supervisor_router(st) ==
  LET content == SummaryContent(st.summary)
  IN IF content = None THEN [raised |-> TRUE, exc |-> "TypeError", branch |-> ""]
     ELSE LET match == re_search(content[1])
          IN IF match # None THEN [raised |-> FALSE, exc |-> "", branch |-> match[1]]
             ELSE IF HasFinal(content[1]) THEN [raised |-> FALSE, exc |-> "", branch |-> END]
             ELSE [raised |-> FALSE, exc |-> "", branch |-> END]

-----------------------------------------------------------------------------
(* The graph *)

\* workflow.add_edge
StaticEdges ==
  {<<"query_analyzer", "hotel_agent">>, <<"hotel_agent", "weather_agent">>,
   <<"weather_agent", "attractions_agent">>,
   <<"attractions_agent", "calculator_agent">>,
   <<"calculator_agent", "itinerary_agent">>,
   <<"itinerary_agent", "summary_agent">>, <<"summary_agent", END>>}

\* a branch map with the attractions branch wired to the calculator
SummaryBranchMap_Miswired ==
  [b \in {"attractions_agent", "itinerary_agent", "calculator_agent", END} |->
     IF b = "attractions_agent" THEN "calculator_agent" ELSE b]

\* branch map of the conditional edge from summary_agent
SummaryBranchMap ==
  [b \in {"attractions_agent", "itinerary_agent", "calculator_agent", END} |-> b]

\* what follows node n when it returned cmd: the goto of the Command, the
\* static edges and the conditional edge all name successors; a branch
\* without an entry in the branch map is a KeyError; END schedules nothing
Route(n, cmd) ==
  IF cmd.raised THEN [raised |-> TRUE, exc |-> cmd.exc, targets |-> {}]
  ELSE LET static == {e[2] : e \in {d \in StaticEdges : d[1] = n}}
       IN IF n # "summary_agent"
          THEN [raised |-> FALSE, exc |-> "", targets |-> ({cmd.goto} \cup static) \ {END}]
          ELSE LET b == summary_supervisor_router(cmd.update)
               IN IF b.raised THEN [raised |-> TRUE, exc |-> b.exc, targets |-> {}]
                  ELSE IF b.branch \notin DOMAIN SummaryBranchMap
                  THEN [raised |-> TRUE, exc |-> "KeyError", targets |-> {}]
                  ELSE [raised |-> FALSE, exc |-> "",
                        targets |-> ({cmd.goto, SummaryBranchMap[b.branch]} \cup static) \ {END}]

-----------------------------------------------------------------------------
(* The run *)

Init ==
  /\ state \in InitialStates
  /\ scheduled = {}
  /\ status = "start"
  /\ err = [stage |-> "", exc |-> ""]
  /\ response = None
  /\ trace = <<>>
  /\ output = Raised("")

\* the conditional edge from START
Gate ==
  /\ status = "start"
  /\ \E out \in EvaluatorOutcomes :
       LET r == router_travel_evaluator(state, out)
       IN /\ response' = out.value
          /\ output' = out
          /\ IF r.raised
             THEN /\ status' = "error"
                  /\ err' = [stage |-> START, exc |-> r.exc]
                  /\ scheduled' = {}
             ELSE /\ scheduled' = {StartBranchMap[r.branch]} \ {END}
                  /\ status' = IF scheduled' = {} THEN "terminal" ELSE "running"
                  /\ err' = err
  /\ UNCHANGED <<state, trace>>

\* one step of the run: node n returned cmd; its update is merged and its
\* successors are scheduled, or its exception ends the run
RunNode(n, cmd, out, kind) ==
  /\ status = "running"
  /\ scheduled = {n}
  /\ Len(trace) < MaxSteps
  /\ trace' = Append(trace, [stage |-> n, returned |-> out.returned, outcome |-> kind])
  /\ response' = response
  /\ output' = out
  /\ LET r == Route(n, cmd)
     IN IF r.raised
        THEN /\ status' = "error"
             /\ err' = [stage |-> n, exc |-> r.exc]
             /\ scheduled' = {}
             /\ state' = state
        ELSE /\ state' = cmd.update
             /\ scheduled' = r.targets
             /\ status' = IF r.targets = {} THEN "terminal" ELSE "running"
             /\ err' = err

QueryAnalyzer ==
  \E out \in AnalyzerOutcomes :
    RunNode("query_analyzer", node_query_analyzer(state, out), out, out.kind)

HotelAgent ==
  \E out \in HotelOutcomes :
    RunNode("hotel_agent", node_hotel_agent(state, out), out,
            IF out.returned /\ ParseHotels(out.value[1]).exc # "none"
            THEN "MalformedOutput" ELSE out.kind)

WeatherAgent ==
  \E out \in WeatherOutcomes :
    RunNode("weather_agent", node_weather_agent(state, out), out, out.kind)

AttractionsAgent ==
  \E out \in AttractionsOutcomes :
    RunNode("attractions_agent", node_attractions_agent(state, out), out, out.kind)

CalculatorAgent ==
  \E out \in CalculatorOutcomes :
    RunNode("calculator_agent", node_calculator_agent(state, out), out, out.kind)

ItineraryAgent ==
  \E out \in ItineraryOutcomes :
    RunNode("itinerary_agent", node_itinerary_agent(state, out), out, out.kind)

SummaryAgent ==
  \E out \in SummaryOutcomes :
    RunNode("summary_agent", node_summary_agent(state, out), out,
            IF out.returned /\ out.value[1].summary = None
            THEN "MalformedOutput" ELSE out.kind)

Next ==
  \/ Gate
  \/ QueryAnalyzer
  \/ HotelAgent
  \/ WeatherAgent
  \/ AttractionsAgent
  \/ CalculatorAgent
  \/ ItineraryAgent
  \/ SummaryAgent

Spec == Init /\ [][Next]_vars

-----------------------------------------------------------------------------
(* Properties *)

\* the fields written after the gate
ResultFields ==
  {"hotels", "weather", "attractions", "calculator_result", "itinerary", "summary"}

PostGateFields == ParamFields \cup ResultFields

Chain ==
  <<"query_analyzer", "hotel_agent", "weather_agent", "attractions_agent",
    "calculator_agent", "itinerary_agent", "summary_agent">>

DomainStages == {"hotel_agent", "weather_agent", "attractions_agent", "calculator_agent"}

LegalTargets == {"attractions_agent", "calculator_agent", "itinerary_agent"}

\* the node that ran last, "" before any node ran
LastStage == IF trace = <<>> THEN "" ELSE trace[Len(trace)].stage

\* the summary stage ran last and its collaborator returned a text
SummaryReturned ==
  /\ LastStage = "summary_agent"
  /\ output.returned
  /\ output.value[1].summary # None

\* the text the summary stage produced last
SummaryText == output.value[1].summary[1]

\* how often node n ran
Executions(n) == Cardinality({i \in DOMAIN trace : trace[i].stage = n})

TypeOK ==
  /\ status \in {"start", "running", "terminal", "error"}
  /\ scheduled \subseteq Nodes
  /\ DOMAIN state = DOMAIN WorkflowState(<<>>)
  /\ Len(trace) <= MaxSteps
  /\ \A i \in DOMAIN trace : trace[i].stage \in Nodes

\* C1: when the gate returns NOT_TRAVEL the run is at TERMINAL, no node has
\* run or is scheduled, and every field written after the gate is still unset
C1_OutOfScopeEndsRun ==
  response = Some("NOT_TRAVEL") =>
    /\ status = "terminal"
    /\ scheduled = {}
    /\ trace = <<>>
    /\ \A f \in PostGateFields : state[f] = None

C1_Witness == response = Some("NOT_TRAVEL") /\ status = "terminal"

\* C2: when the gate's collaborator returns a label other than TRAVEL and
\* NOT_TRAVEL, the run has ended with the ValueError of the gate
\* (InvalidClassification) and no node has run or is scheduled
C2_InvalidClassification ==
  (response # None /\ response[1] \notin {"TRAVEL", "NOT_TRAVEL"}) =>
    /\ status = "error"
    /\ err = [stage |-> START, exc |-> "ValueError"]
    /\ scheduled = {}
    /\ trace = <<>>

C2_Witness == response = Some("") /\ status = "error"

\* the field a domain stage owns, its safe default and its successor
OwnedField ==
  [n \in DomainStages |->
     CASE n = "hotel_agent" -> "hotels"
       [] n = "weather_agent" -> "weather"
       [] n = "attractions_agent" -> "attractions"
       [] n = "calculator_agent" -> "calculator_result"]

SafeDefault == [n \in DomainStages |-> IF n = "hotel_agent" THEN Some(<<>>) ELSE None]

Successor ==
  [n \in DomainStages |->
     CASE n = "hotel_agent" -> "weather_agent"
       [] n = "weather_agent" -> "attractions_agent"
       [] n = "attractions_agent" -> "calculator_agent"
       [] n = "calculator_agent" -> "itinerary_agent"]

\* C3: when the adapter of a domain stage failed, in whatever way, the run
\* goes on: the stage's field holds its safe default and the successor of
\* the stage is scheduled
C3_DomainFailureAbsorbed ==
  (LastStage \in DomainStages /\ trace[Len(trace)].outcome # "ok") =>
    /\ status = "running"
    /\ scheduled = {Successor[LastStage]}
    /\ state[OwnedField[LastStage]] = SafeDefault[LastStage]

\* the bound on the re-entries of a stage that section 4.1 asks for
CycleLimit == 3

\* how often node n was entered again after its first execution
Reentries(n) == IF Executions(n) = 0 THEN 0 ELSE Executions(n) - 1

\* C4: a stage that has been re-entered CycleLimit times is never scheduled
\* again: the run has ended with CycleLimitExceeded instead
C4_CycleBound ==
  \A n \in Nodes : Reentries(n) >= CycleLimit => n \notin scheduled

\* C5: after the summary stage produced a text whose regeneration marker
\* names attractions_agent, exactly the attractions stage is scheduled;
\* after a text with a "final" marker and no regeneration marker the run is
\* at TERMINAL
C5_RegenerationCorrect ==
  SummaryReturned =>
    /\ re_search(SummaryText) = Some("attractions_agent") =>
         (status = "running" /\ scheduled = {"attractions_agent"})
    /\ (re_search(SummaryText) = None /\ HasFinal(SummaryText)) =>
         (status = "terminal" /\ scheduled = {})

C5_Witness ==
  /\ SummaryReturned
  /\ SummaryText = <<"regenerate:", "attractions_agent">>
  /\ scheduled = {"attractions_agent"}

\* C6: after the summary stage produced a text, a stage is scheduled only
\* if the marker names a legal target; every other text, a marker naming
\* another stage included, leaves the run at TERMINAL without an error
C6_OnlyLegalTargets ==
  SummaryReturned =>
    IF re_search(SummaryText) # None /\ re_search(SummaryText)[1] \in LegalTargets
    THEN status = "running" /\ scheduled = {re_search(SummaryText)[1]}
    ELSE status = "terminal" /\ scheduled = {}

\* C7: no step removes or replaces a message: the messages before the step
\* are a prefix of the messages after it
C7_MessagesAppendOnly ==
  [][/\ Len(state'.messages) >= Len(state.messages)
     /\ SubSeq(state'.messages, 1, Len(state.messages)) = state.messages]_vars

C7_Witness ==
  /\ Executions("itinerary_agent") >= 2
  /\ status = "terminal"
  /\ state.messages[1] = Request

\* the hotel agent's text was returned and did not parse
HotelMalformed(i) ==
  /\ trace[i].stage = "hotel_agent"
  /\ trace[i].returned
  /\ trace[i].outcome = "MalformedOutput"

\* C8: when the hotel agent's text does not parse into hotels, hotels is
\* the empty list, the weather stage is what runs next, the hotel stage
\* does not end the run, and at TERMINAL itinerary and summary are set
C8_MalformedLodging ==
  \A i \in DOMAIN trace :
    HotelMalformed(i) =>
      /\ state.hotels = Some(<<>>)
      /\ ~(status = "error" /\ err.stage = "hotel_agent")
      /\ IF i < Len(trace) THEN trace[i + 1].stage = "weather_agent"
         ELSE status = "running" /\ scheduled = {"weather_agent"}
      /\ status = "terminal" => (state.itinerary # None /\ state.summary # None)

C8_Witness ==
  /\ status = "terminal"
  /\ \E i \in DOMAIN trace : HotelMalformed(i)
  /\ state.hotels = Some(<<>>)

\* C9: when the query analyzer raises, the run has ended with that failure
\* at query_analyzer: no later node has run or is scheduled and the trip
\* parameters are still unset
C9_ExtractionFailed ==
  \A i \in DOMAIN trace :
    (trace[i].stage = "query_analyzer" /\ ~trace[i].returned) =>
      /\ status = "error"
      /\ err.stage = "query_analyzer"
      /\ i = Len(trace)
      /\ scheduled = {}
      /\ \A f \in PostGateFields : state[f] = None

C9_Witness ==
  /\ LastStage = "query_analyzer"
  /\ ~output.returned
  /\ status = "error"

\* every collaborator called so far succeeded
AllOk == \A i \in DOMAIN trace : trace[i].outcome = "ok"

\* C10: in scope and with every collaborator succeeding, the nodes run in
\* the order of the chain, one at a time; when the first summary carries no
\* regeneration marker the run is at TERMINAL after these seven executions,
\* with itinerary and summary set
C10_LinearRun ==
  (response = Some("TRAVEL") /\ AllOk) =>
    /\ \A i \in DOMAIN trace : i <= 7 => trace[i].stage = Chain[i]
    /\ Len(trace) < 7 => (status = "running" /\ scheduled = {Chain[Len(trace) + 1]})
    /\ (Len(trace) = 7 /\ re_search(SummaryText) = None) =>
         /\ status = "terminal"
         /\ scheduled = {}
         /\ state.itinerary # None
         /\ state.summary = output.value

C10_Witness ==
  /\ response = Some("TRAVEL")
  /\ AllOk
  /\ status = "terminal"
  /\ Len(trace) = 7
  /\ state.hotels # Some(<<>>)

\* the record the router reads after the summary stage ran last
AfterSummary == [state EXCEPT !.summary = output.value]

\* C11: every branch summary_supervisor_router returns is a key of the
\* branch map of summary_agent, so no run ends with the KeyError of a
\* branch that has no entry
C11_RoutingTableComplete ==
  /\ ~(status = "error" /\ err.exc = "KeyError")
  /\ SummaryReturned =>
       summary_supervisor_router(AfterSummary).branch \in DOMAIN SummaryBranchMap

\* what app.invoke gives the caller: the record at TERMINAL, the exception
\* after a fatal failure, nothing while the run goes on
Outcome ==
  IF status = "terminal" THEN [kind |-> "record", record |-> Some(state), exc |-> ""]
  ELSE IF status = "error" THEN [kind |-> "error", record |-> None, exc |-> err.exc]
  ELSE [kind |-> "none", record |-> None, exc |-> ""]

\* C12: a run that has stopped is at TERMINAL with its record or has failed
\* with an exception and no record; at TERMINAL no exception is recorded,
\* after a failure the failing stage and its exception are; a record
\* returned after the gate was passed has hotels set to a list and
\* itinerary and summary set
C12_RecordOrError ==
  /\ (status \in {"terminal", "error"}) = (status # "start" /\ scheduled = {})
  /\ status = "terminal" => (Outcome.kind = "record" /\ err = [stage |-> "", exc |-> ""])
  /\ status = "error" =>
       /\ Outcome.record = None
       /\ err.exc # ""
       /\ err.stage \in Nodes \cup {START}
  /\ (status = "terminal" /\ response = Some("TRAVEL")) =>
       /\ state.hotels # None
       /\ state.itinerary # None
       /\ state.summary # None

C12_Witness ==
  /\ Outcome.kind = "record"
  /\ response = Some("TRAVEL")
  /\ \E i \in DOMAIN trace : HotelMalformed(i)
  /\ Executions("summary_agent") = 2

\* the result field each node assigns ("" for query_analyzer, which
\* assigns the trip parameters)
Owner ==
  [n \in Nodes |->
     CASE n = "query_analyzer" -> ""
       [] n = "hotel_agent" -> "hotels"
       [] n = "weather_agent" -> "weather"
       [] n = "attractions_agent" -> "attractions"
       [] n = "calculator_agent" -> "calculator_result"
       [] n = "itinerary_agent" -> "itinerary"
       [] n = "summary_agent" -> "summary"]

\* the step is the execution of node n
Ran(n) == trace' # trace /\ trace'[Len(trace')].stage = n

\* C14: a result field changes only in a step of the node that owns it,
\* first execution or re-entry alike; every other result field is left as
\* it was
C14_SingleWriter ==
  [][\A f \in ResultFields :
       state'[f] # state[f] => \E n \in Nodes : Ran(n) /\ Owner[n] = f]_vars

C14_Witness ==
  /\ Executions("calculator_agent") = 2
  /\ LastStage = "calculator_agent"
  /\ status = "running"
  /\ state.attractions # None
  /\ state.itinerary # None

\* C15: the trip parameters are unset until query_analyzer runs;
\* query_analyzer runs only as the first node of a run, so at most once;
\* no other step changes a trip parameter
C15_ParamsSetOnce ==
  [][/\ trace = <<>> => \A f \in ParamFields : state[f] = None
     /\ Ran("query_analyzer") => trace = <<>>
     /\ (\E f \in ParamFields : state'[f] # state[f]) => Ran("query_analyzer")]_vars

C15_Witness ==
  /\ Executions("query_analyzer") = 1
  /\ Executions("attractions_agent") = 2
  /\ state.destination = Some("Paris")
  /\ state.group_size = None
  /\ status = "terminal"

\* C16: at most one node is scheduled at any time, exactly one while the
\* run goes on and none once it has stopped; after the summary stage the
\* goto, the conditional edge and the static edge to END together schedule
\* the regeneration target alone, or nothing
C16_OneStageAtATime ==
  /\ Cardinality(scheduled) <= 1
  /\ status = "running" => Cardinality(scheduled) = 1
  /\ status \in {"start", "terminal", "error"} => scheduled = {}
  /\ (SummaryReturned /\ status = "running") =>
       scheduled = {node_summary_agent(state, output).goto}

C16_Witness ==
  /\ SummaryReturned
  /\ status = "running"
  /\ scheduled = {"calculator_agent"}

\* C17: when the summary stage produced a text in which the marker pattern
\* does not match, with or without 'final' in it, that very step ends the
\* run at TERMINAL: nothing is scheduled and no error is raised
C17_NoSignalTerminates ==
  (SummaryReturned /\ re_search(SummaryText) = None) =>
    /\ status = "terminal"
    /\ scheduled = {}
    /\ err.exc = ""
    /\ state.summary = output.value

C17_Witness ==
  /\ SummaryReturned
  /\ re_search(SummaryText) = None
  /\ ~HasFinal(SummaryText)
  /\ \E i \in DOMAIN SummaryText : IsMarker(SummaryText[i])
  /\ Executions("summary_agent") = 2
  /\ status = "terminal"

\* the first marker of text c is followed by the name t and by no further
\* name: the text asks for the regeneration of t
MarksTarget(c, t) ==
  \E i \in 1..(Len(c) - 1) :
    /\ IsMarker(c[i])
    /\ \A j \in 1..(i - 1) : ~IsMarker(c[j])
    /\ c[i + 1] = t
    /\ \A k \in (i + 2)..Len(c) : ~EndsInAgent(c[k])

\* C18: a text holding both 'final' and a marker that names a legal target
\* sends the run back to the named stage; the run does not end in that step
C18_MarkerBeatsFinal ==
  \A t \in LegalTargets :
    (SummaryReturned /\ HasFinal(SummaryText) /\ MarksTarget(SummaryText, t)) =>
      /\ status = "running"
      /\ scheduled = {t}
      /\ state.summary = output.value

C18_Witness ==
  /\ SummaryReturned
  /\ SummaryText = <<"Final regenerate:", "attractions_agent">>
  /\ status = "running"
  /\ scheduled = {"attractions_agent"}

\* C19: for every text the summary stage produced, the goto of the Command
\* equals the branch the router returns on the updated record, the branch
\* has an entry in the branch map and the entry is that same node, so the
\* run has one successor at most
C19_DecisionsAgree ==
  SummaryReturned =>
    LET cmd == node_summary_agent(state, output)
        b == summary_supervisor_router(AfterSummary)
    IN /\ ~cmd.raised
       /\ ~b.raised
       /\ cmd.goto = b.branch
       /\ b.branch \in DOMAIN SummaryBranchMap
       /\ SummaryBranchMap[b.branch] = cmd.goto
       /\ scheduled = {cmd.goto} \ {END}

\* the node after n in the chain
ChainNext(n) == Chain[(CHOOSE k \in DOMAIN Chain : Chain[k] = n) + 1]

\* C20: a node other than summary_agent is followed by the next node of the
\* chain and by nothing else, a summary step by a legal target; so a hop to
\* X re-executes X .. summary_agent in chain order, every summary step comes
\* right after an itinerary step, and past the gate the run ends at TERMINAL
\* only in a summary step
C20_ChainOrderAfterHop ==
  /\ \A i \in DOMAIN trace :
       /\ (i < Len(trace) /\ trace[i].stage # "summary_agent") =>
            trace[i + 1].stage = ChainNext(trace[i].stage)
       /\ (i < Len(trace) /\ trace[i].stage = "summary_agent") =>
            trace[i + 1].stage \in LegalTargets
       /\ trace[i].stage = "summary_agent" =>
            (i > 1 /\ trace[i - 1].stage = "itinerary_agent")
  /\ (status = "running" /\ trace # <<>> /\ LastStage # "summary_agent") =>
       scheduled = {ChainNext(LastStage)}
  /\ (status = "terminal" /\ trace # <<>>) => LastStage = "summary_agent"

C20_Witness ==
  /\ status = "terminal"
  /\ Len(trace) = 12
  /\ trace[8].stage = "calculator_agent"
  /\ trace[10].stage = "summary_agent"
  /\ trace[11].stage = "itinerary_agent"
  /\ trace[12].stage = "summary_agent"
====
